---- MODULE Spec2Model ----
(***************************************************************************)
(* A model of the bishop dispatcher: the registration API (add / remove),  *)
(* the dispatcher (act) with its two execution envelopes and its timeout   *)
(* race, as written in the instance factory (src/unnamed/part_002), and    *)
(* the chain runner with its notification fan-out (src/src/utils.js).      *)
(*                                                                         *)
(* Patterns are maps from keys to string values, given in object form      *)
(* (objectify of an object is a deep clone, an equal map).  Handlers are   *)
(* inputs: what a handler does (return, throw, reject, never settle) is    *)
(* chosen by the environment.                                              *)
(***************************************************************************)
EXTENDS Integers, Sequences, FiniteSets, TLC

\* ------------------------------------------------------------------ bounds
\* most entries an index holds in a checked behaviour
MaxEntries == 3
\* most entries an index holds in the index specification
MaxIndexed == 2
\* act calls followed in a checked behaviour, each with its own call id
MaxCalls == 1
\* most steps of an execution chain
MaxChain == 2

\* the longest notify string
MaxText == 4

\* ------------------------------------------------------- program constants
\* defaultConfig.timeout
DefaultTimeout == 500

\* --------------------------------------------------------------- patterns
Keys == {"r", "k", "$local"}

\* a key is a meta key when its first character is the sigil
MetaKeys == {"$local", "$nowait", "$timeout"}

isMeta(k) ==
  k \in MetaKeys

\* the values registered under a key, and the values requests carry
AddValues ==
  [k \in Keys |-> IF k = "r" THEN {"x"} ELSE IF k = "k" THEN {"1"} ELSE {"true"}]

ActValues ==
  [k \in Keys |-> IF k = "r" THEN {"x", "y"} ELSE AddValues[k]]

\* the maps over keys ks, with a routing (non-meta) key at least, whose values
\* are drawn by vals
PatternsOver(ks, vals) ==
  UNION {{f \in [S -> {"x", "y", "1", "true", "100"}] : \A k \in S : f[k] \in vals[k]} :
           S \in {T \in SUBSET ks : \E k \in T : ~isMeta(k)}}

\* the patterns add and remove are given, and the requests act is given
Patterns ==
  PatternsOver(Keys, AddValues)

Requests ==
  PatternsOver(Keys, ActValues)

Functions == {"h1", "h2"}

TransportNames == {"t1"}

\* the send of a transport record: none, or a function
Sends == {"none", "sendA"}

\* the lifecycle hooks a transport record may have
Hooks == {"connect", "listen", "disconnect", "close"}

\* what transport plugins return: a name, a send and some lifecycle hooks
TransportData(names, sends, hookSets, timeouts) ==
  [name : names, send : sends, hooks : hookSets, options : [timeout : timeouts]]

isFunction(h) ==
  h \in Functions

objectify(obj) ==
  obj

\* ------------------------------------------------- the pattern index
\* An index is the sequence of its entries in insertion order.

\* every key the index was given for E is in Q with the same value
Matches(E, Q) ==
  \A k \in DOMAIN E : k \in DOMAIN Q /\ Q[k] = E[k]

\* depth indexing weighs an entry by its number of properties
Weight(p) ==
  Cardinality(DOMAIN p)

Candidates(idx, Q) ==
  {i \in 1..Len(idx) : Matches(idx[i].pattern, Q)}

FirstOf(S) ==
  CHOOSE i \in S : \A j \in S : i <= j

\* the candidates of greatest weight
Deepest(idx, c) ==
  {i \in c : \A j \in c : Weight(idx[j].pattern) <= Weight(idx[i].pattern)}

\* lookup(pattern, {patterns: true, payloads: true}): the first candidate in
\* the configured order, <<>> for null
lookup(idx, Q, indexing) ==
  \* "insertion": entries are tried in insertion order;
  \* "depth": entries with the most properties are tried first
  IF Candidates(idx, Q) = {} THEN <<>>
  ELSE IF indexing = "depth"
       THEN <<idx[FirstOf(Deepest(idx, Candidates(idx, Q)))]>>
       ELSE <<idx[FirstOf(Candidates(idx, Q))]>>

indexAdd(idx, p, payload) ==
  Append(idx, [pattern |-> p, payload |-> payload])

\* delete the first entry whose pattern equals p
indexRemove(idx, p) ==
  LET hit == {i \in 1..Len(idx) : idx[i].pattern = p}
  IN  IF hit = {} THEN idx
      ELSE [i \in 1..(Len(idx) - 1) |->
              IF i < FirstOf(hit) THEN idx[i] ELSE idx[i + 1]]

\* ------------------------------------------------------------------ state
VARIABLES
  config,      \* the instance configuration (fixed at construction)
  pm,          \* the index of all patterns (local + network)
  pmLocal,     \* the index of local patterns
  transport,   \* the loaded transports: a map from names to transport records
  calls,       \* the act calls: one record per call slot
  logged,      \* errors given to log.error
  exited,      \* process.exit(1) was called
  apiError,    \* what the last add or registerTransport threw ("none" when it returned)
  transports,  \* the transport storage of registerTransport: names with a notify
  run,         \* the run of a chain runner
  last,        \* the last add or add-then-remove, with the indices before the add
  hooked,      \* the last lifecycle entry point and the hooks it invoked
  headers      \* the last normalizeHeaders call: its input and what it gave

vars == <<config, pm, pmLocal, transport, calls, logged, exited, apiError,
          transports, run, last, hooked, headers>>

\* the state of the chain runner and its transport storage
chainVars == <<transports, run>>

\* the state of the instance
instanceVars == <<config, pm, pmLocal, transport, calls, logged, exited>>

\* what the dispatcher's calls and the chain runner leave alone
sideVars == <<hooked, headers>>

CallIds == 1..MaxCalls

\* names of the errors a handler may raise: a user error and a fatal one
ErrNames == {"Error", "TypeError"}

\* defaultConfig.terminateOn
TerminateOnList == {"ReferenceError", "RangeError", "SyntaxError", "TypeError"}

NoOutcome == [kind |-> "none", val |-> "none"]

Result(v) == [kind |-> "result", val |-> v]

Failure(e) == [kind |-> "error", val |-> e]

\* pc: idle | pending | done (the caller's promise);  hnd: none | running |
\* returned | failed (the handler);  timer: none | armed | cleared | fired;
\* timeout: the call's effective timeout;  raised: the error the handler
\* raised;  classified: the error errorHandler was given;  method: what the
\* executor called, a local handler or a transport's send;  local: the
\* request carried $local;  indexed: the entries the index of all patterns
\* held when act looked the request up
IdleCall ==
  [pc |-> "idle", match |-> <<>>, envelope |-> "none", timeout |-> 0,
   hnd |-> "none", raised |-> "none", classified |-> "none",
   timer |-> "none", out |-> NoOutcome, method |-> <<>>, local |-> FALSE,
   indexed |-> 0]

\* pc: idle | reduce (between chain steps) | step (a chain step runs) |
\* then (the chain ran through) | settling (the caller's result is decided) |
\* done (the caller observes it)
IdleRun ==
  [pc |-> "idle", len |-> 0, i |-> 0, input |-> "none", break |-> FALSE,
   brokeAt |-> 0, hasNotify |-> FALSE, notify |-> {}, invoked |-> <<>>,
   pending |-> "none", result |-> "none", fanned |-> FALSE, emitted |-> FALSE,
   toMap |-> {}, notifyCalled |-> {}, notifying |-> {}, fanLogged |-> {},
   classified |-> {}]

\* op: none | add (the last index operation was a successful add) |
\* addremove (that add was followed by a remove of the same pattern);
\* pm, pmLocal: the indices as they were before the add
NoLast ==
  [op |-> "none", pattern |-> <<>>, handler |-> "none", pm |-> <<>>, pmLocal |-> <<>>]

\* the two index.js of the repository that build an instance
Factories == {"part_001", "part_002"}

\* no lifecycle entry point was called yet;  factory: the index.js that built
\* the instance;  entry: the entry point called last;  invoked: the hooks that
\* call invoked, as pairs of transport name and hook
NoHooks ==
  [factory |-> "part_002", entry |-> "none", invoked |-> {}]

\* normalizeHeaders was not called yet;  given: the notify it was given;
\* outcome: none | ok | INVALID_HEADERS (the validator's error) | TypeError;
\* notify: the notify of the headers it returned
NoHeaders ==
  [given |-> [t |-> "undefined", v |-> <<>>, items |-> <<>>], outcome |-> "none",
   notify |-> [t |-> "undefined", v |-> <<>>, items |-> <<>>]]

Configs(orders, forbids, timeouts, classifiers) ==
  [matchOrder : orders, forbidSameRouteNames : forbids,
   timeout : timeouts, terminateOn : classifiers]

InitOf(cfgs, factories) ==
  /\ config \in cfgs
  /\ pm = <<>>
  /\ pmLocal = <<>>
  /\ transport = <<>>
  /\ calls = [c \in CallIds |-> IdleCall]
  /\ logged = {}
  /\ exited = FALSE
  /\ apiError = "none"
  /\ transports = {}
  /\ run = IdleRun
  /\ last = NoLast
  /\ hooked \in {[NoHooks EXCEPT !.factory = f] : f \in factories}
  /\ headers = NoHeaders

\* an instance of the newest index.js
InitWith(cfgs) ==
  InitOf(cfgs, {"part_002"})

\* ------------------------------------------------------ registration API
\* an add that forgets the index of local patterns
addForgetsLocal(_pattern, handler) ==
  LET type == IF isFunction(handler) THEN "local" ELSE handler
      pattern == objectify(_pattern)
      payload == [type |-> type, handler |-> handler]
      foundPattern == lookup(pm, pattern, config.matchOrder)
  IN  /\ ~exited
      /\ Len(pm) < MaxEntries
      /\ IF config.forbidSameRouteNames /\ foundPattern # <<>>
            /\ foundPattern[1].pattern = pattern
         THEN /\ apiError' = "pattern already exists"
              /\ last' = NoLast
              /\ UNCHANGED <<pm, pmLocal>>
         ELSE /\ apiError' = "none"
              /\ last' = [op |-> "add", pattern |-> pattern, handler |-> handler,
                          pm |-> pm, pmLocal |-> pmLocal]
              /\ pm' = indexAdd(pm, pattern, payload)
              /\ pmLocal' = pmLocal
      /\ UNCHANGED <<config, transport, calls, logged, exited, chainVars, sideVars>>

\* objectify keeps every key of the pattern, meta keys included
add(_pattern, handler) ==
  LET type == IF isFunction(handler) THEN "local" ELSE handler
      pattern == objectify(_pattern)
      payload == [type |-> type, handler |-> handler]
      foundPattern == lookup(pm, pattern, config.matchOrder)
  IN  /\ ~exited
      /\ Len(pm) < MaxEntries
      /\ IF config.forbidSameRouteNames /\ foundPattern # <<>>
            /\ foundPattern[1].pattern = pattern
         THEN /\ apiError' = "pattern already exists"
              /\ last' = NoLast
              /\ UNCHANGED <<pm, pmLocal>>
         ELSE /\ apiError' = "none"
              /\ last' = [op |-> "add", pattern |-> pattern, handler |-> handler,
                          pm |-> pm, pmLocal |-> pmLocal]
              /\ pm' = indexAdd(pm, pattern, payload)
              /\ pmLocal' = IF type = "local"
                            THEN indexAdd(pmLocal, pattern, payload)
                            ELSE pmLocal
      /\ UNCHANGED <<config, transport, calls, logged, exited, chainVars, sideVars>>

\* a remove that forgets the index of local patterns
removeAllIndexOnly(_pattern) ==
  /\ ~exited
  /\ pm' = indexRemove(pm, objectify(_pattern))
  /\ pmLocal' = pmLocal
  /\ last' = IF last.op = "add" /\ last.pattern = objectify(_pattern)
             THEN [last EXCEPT !.op = "addremove", !.handler = "none"]
             ELSE NoLast
  /\ UNCHANGED <<config, transport, calls, logged, exited, apiError, chainVars, sideVars>>

\* a remove that forgets the index of all patterns
removeLocalIndexOnly(_pattern) ==
  /\ ~exited
  /\ pm' = pm
  /\ pmLocal' = indexRemove(pmLocal, objectify(_pattern))
  /\ last' = IF last.op = "add" /\ last.pattern = objectify(_pattern)
             THEN [last EXCEPT !.op = "addremove", !.handler = "none"]
             ELSE NoLast
  /\ UNCHANGED <<config, transport, calls, logged, exited, apiError, chainVars, sideVars>>

remove(_pattern) ==
  /\ ~exited
  /\ pm' = indexRemove(pm, objectify(_pattern))
  /\ pmLocal' = indexRemove(pmLocal, objectify(_pattern))
  /\ last' = IF last.op = "add" /\ last.pattern = objectify(_pattern)
             THEN [last EXCEPT !.op = "addremove", !.handler = "none"]
             ELSE NoLast
  /\ UNCHANGED <<config, transport, calls, logged, exited, apiError, chainVars, sideVars>>

\* a transport plugin returned data: it is stored under its name
use(data) ==
  /\ ~exited
  /\ transport' = [n \in DOMAIN transport \cup {data.name} |->
                     IF n = data.name THEN data ELSE transport[n]]
  /\ UNCHANGED <<config, pm, pmLocal, calls, logged, exited, apiError, chainVars,
               last, sideVars>>

\* ------------------------------------------------------ header normalizer
\* A JavaScript value is a record of its type and its content: the characters
\* of a string or the printed form of a number or a boolean, and the items
\* of an array.
Chars == {"a", ",", " "}

Texts ==
  UNION {[1..n -> Chars] : n \in 0..MaxText}

Undefined == [t |-> "undefined", v |-> <<>>, items |-> <<>>]

Str(text) == [t |-> "string", v |-> text, items |-> <<>>]

Num(digits) == [t |-> "number", v |-> digits, items |-> <<>>]

Bool(b) ==
  [t |-> "boolean", items |-> <<>>,
   v |-> IF b THEN <<"t", "r", "u", "e">> ELSE <<"f", "a", "l", "s", "e">>]

RegExp == [t |-> "regexp", v |-> <<>>, items |-> <<>>]

Arr(items) == [t |-> "array", v |-> <<>>, items |-> items]

\* the items of the lists given as notify
ItemValues == {Str(<<"a">>), Str(<<"b">>), Num(<<"5">>)}

\* the values given as notify
NotifyValues ==
  {Undefined, Bool(TRUE), Bool(FALSE), RegExp, Num(<<"0">>), Num(<<"5">>),
   Str(<<"t", "r", "u", "e">>)}
    \cup {Str(text) : text \in Texts}
    \cup {Arr(items) : items \in UNION {[1..n -> ItemValues] : n \in 0..2}}

\* headers.notify && ...
truthy(x) ==
  CASE x.t = "undefined" -> FALSE
    [] x.t = "boolean" -> x = Bool(TRUE)
    [] x.t = "number" -> x.v # <<"0">>
    [] x.t = "string" -> x.v # <<>>
    [] OTHER -> TRUE

\* text.split(',')
split(text) ==
  LET commas == {i \in 1..Len(text) : text[i] = ","}
      cuts == {0} \cup commas \cup {Len(text) + 1}
      cut(k) == CHOOSE c \in cuts : Cardinality({d \in cuts : d < c}) = k - 1
  IN  [k \in 1..(Cardinality(cuts) - 1) |-> SubSeq(text, cut(k) + 1, cut(k + 1) - 1)]

\* item.trim()
trim(text) ==
  LET inked == {i \in 1..Len(text) : text[i] # " "}
  IN  IF inked = {} THEN <<>>
      ELSE SubSeq(text, CHOOSE i \in inked : \A j \in inked : i <= j,
                        CHOOSE i \in inked : \A j \in inked : j <= i)

\* the switch on headers.notify: the notify it leaves, or its TypeError
coerceNotify(x) ==
  IF ~truthy(x) \/ x.t = "array" THEN x
  ELSE IF x = Bool(TRUE) \/ x = Str(<<"t", "r", "u", "e">>) THEN Arr(<<Str(<<"l", "o", "c", "a", "l">>)>>)
  ELSE IF x.t = "regexp" THEN Arr(<<Str(<<"l", "o", "c", "a", "l">>)>>)
  ELSE IF x.t = "string"
       THEN LET trimmed == [k \in 1..Len(split(x.v)) |-> trim(split(x.v)[k])]
            IN  Arr([k \in 1..Len(SelectSeq(trimmed, LAMBDA item : item # <<>>)) |->
                       Str(SelectSeq(trimmed, LAMBDA item : item # <<>>)[k])])
       ELSE [t |-> "TypeError", v |-> <<>>, items |-> <<>>]

\* the validator with coerceTypes 'array': a scalar given for the array is
\* wrapped, a number or boolean item becomes its string; then minItems 1 and
\* uniqueItems.  The notify it leaves, or Undefined under "invalid".
areHeadersValid(x) ==
  LET items == IF x.t = "array" THEN x.items ELSE <<x>>
      coerced == [k \in 1..Len(items) |-> Str(items[k].v)]
  IN  IF x.t = "undefined" THEN [valid |-> TRUE, notify |-> x]
      ELSE IF /\ x.t \in {"array", "string", "number", "boolean"}
              /\ \A k \in 1..Len(items) : items[k].t \in {"string", "number", "boolean"}
              /\ Len(items) >= 1
              /\ \A j, k \in 1..Len(items) : j # k => coerced[j] # coerced[k]
           THEN [valid |-> TRUE, notify |-> Arr(coerced)]
           ELSE [valid |-> FALSE, notify |-> Undefined]

normalizeHeaders(given) ==
  /\ headers' =
       LET notify == coerceNotify(given)
       IN  IF notify.t = "TypeError"
           THEN [given |-> given, outcome |-> "TypeError", notify |-> Undefined]
           ELSE IF areHeadersValid(notify).valid
                THEN [given |-> given, outcome |-> "ok",
                      notify |-> areHeadersValid(notify).notify]
                ELSE [given |-> given, outcome |-> "INVALID_HEADERS", notify |-> Undefined]
  /\ UNCHANGED <<instanceVars, apiError, chainVars, last, hooked>>

\* -------------------------------------------------------------- lifecycle
\* the named hook of every transport of the storage that has it
runMethodsParallel(storage, hook) ==
  {<<n, hook>> : n \in {t \in DOMAIN storage : hook \in storage[t].hooks}}

\* an entry point awaits runMethodsParallel(this.transport, hook)
runLifecycle(entry, hook) ==
  /\ hooked' = [hooked EXCEPT !.entry = entry,
                              !.invoked = runMethodsParallel(transport, hook)]
  /\ UNCHANGED <<instanceVars, apiError, chainVars, last, headers>>

connect ==
  runLifecycle("connect", "connect")

\* the older index.js names the connect hook here
disconnect ==
  runLifecycle("disconnect",
               IF hooked.factory = "part_001" THEN "connect" ELSE "disconnect")

listen ==
  runLifecycle("listen", "listen")

close ==
  runLifecycle("close", "close")

\* ------------------------------------------------------------ dispatcher
\* pattern.$timeout || this.timeout
timeoutOf(Q) ==
  IF "$timeout" \in DOMAIN Q THEN 100 ELSE config.timeout

\* an act that always looks up the index of all patterns
selectIndexAll(Q) ==
  pm

\* the index act looks up
selectIndex(Q) ==
  IF "$local" \in DOMAIN Q THEN pmLocal ELSE pm

\* what errorHandler does with err: "fatal" (log and exit), "mute" (truthy)
\* or "pass" (falsy).  A classifier function's answer, mute, is an input.
errorHandler(err, mute) ==
  IF config.terminateOn = "list"
  THEN IF err \in TerminateOnList THEN "fatal" ELSE "pass"
  ELSE IF mute THEN "mute" ELSE "pass"

\* a call that never gets a timer
armTimerNever(timeout) ==
  "none"

\* what .timeout(timeout) does to the call: no timer without a timeout
armTimer(timeout) ==
  IF timeout > 0 THEN "armed" ELSE "none"

\* a promise that takes every outcome, the late ones too
settleLate(call, o) ==
  [call EXCEPT !.pc = "done", !.out = o,
               !.timer = IF call.timer = "armed" THEN "cleared" ELSE call.timer]

\* the caller's promise settles once: a pending call takes the outcome and its
\* timer is cleared, a call already settled keeps what it has
settle(call, o) ==
  IF call.pc = "pending"
  THEN [call EXCEPT !.pc = "done", !.out = o,
                    !.timer = IF call.timer = "armed" THEN "cleared" ELSE call.timer]
  ELSE call

\* an await envelope that rejects with every error that is not fatal
awaitCatchRethrows(call, err, mute) ==
  LET seen == [call EXCEPT !.hnd = "failed", !.raised = err, !.classified = err]
  IN  IF errorHandler(err, mute) = "fatal" THEN seen ELSE settle(seen, Failure(err))

\* the await envelope after the handler raised err
awaitCatch(call, err, mute) ==
  LET seen == [call EXCEPT !.hnd = "failed", !.raised = err, !.classified = err]
  IN  CASE errorHandler(err, mute) = "fatal" -> seen
        [] errorHandler(err, mute) = "mute" -> settle(seen, Result("null"))
        [] OTHER -> settle(seen, Failure(err))

\* the nowait envelope's catch of a rejected handler promise
nowaitCatch(call, err) ==
  [call EXCEPT !.hnd = "failed", !.raised = err, !.classified = err]

\* what the classifier and the envelopes log for err
logAfter(envelope, err, mute) ==
  CASE errorHandler(err, mute) = "fatal" -> logged \cup {err}
    [] errorHandler(err, mute) = "pass" /\ envelope = "nowait" -> logged \cup {err}
    [] OTHER -> logged

\* a transport that is loaded whatever it has
hasSendByName(type) ==
  type \in DOMAIN transport

\* this.transport[type] && this.transport[type].send
hasSend(type) ==
  type \in DOMAIN transport /\ transport[type].send # "none"

\* an act that resolves with nothing when no entry matches
actOnResolvesUnmatched(c, Q, sync, mute, matchResult) ==
  LET payload == matchResult[1].payload
      isLocalPattern == payload.type = "local"
      timeout == timeoutOf(Q)
      started == [IdleCall EXCEPT !.pc = "pending", !.match = matchResult,
                                  !.timeout = timeout,
                                  !.local = "$local" \in DOMAIN Q,
                                  !.indexed = Len(pm)]
      method == IF isLocalPattern THEN <<"local", payload.handler>>
                ELSE <<"send", payload.type, transport[payload.type].send>>
      nowait == [started EXCEPT !.envelope = "nowait", !.method = method]
      await == [started EXCEPT !.envelope = "await", !.method = method]
      next ==
        CASE matchResult = <<>> ->
               settle(started, Result("undefined"))
          [] ~isLocalPattern /\ ~hasSend(payload.type) ->
               settle(started, Failure("transport not exists"))
          [] isLocalPattern /\ "$nowait" \in DOMAIN Q /\ sync # "pending" ->
               settle([nowait EXCEPT !.hnd = "failed", !.raised = sync],
                      Failure(sync))
          [] isLocalPattern /\ "$nowait" \in DOMAIN Q ->
               settle([nowait EXCEPT !.hnd = "running"], Result("undefined"))
          [] sync # "pending" ->
               awaitCatch(await, sync, mute)
          [] OTHER ->
               [await EXCEPT !.hnd = "running", !.timer = armTimer(timeout)]
  IN  \E after \in {next} :
        /\ calls' = [calls EXCEPT ![c] = after]
        /\ logged' = IF after.classified # "none"
                     THEN logAfter("await", sync, mute) ELSE logged
        /\ exited' = (after.classified # "none"
                        /\ errorHandler(sync, mute) = "fatal")
        /\ UNCHANGED <<config, pm, pmLocal, transport, apiError, chainVars,
                     last, sideVars>>

\* The synchronous part of act: lookup, handler selection, the executor's call
\* of the handler, the timer.  sync is what the handler does when called:
\* "pending" (it returns a value or a promise) or the name of the error it
\* throws.
actOn(c, Q, sync, mute, matchResult) ==
  LET payload == matchResult[1].payload
      isLocalPattern == payload.type = "local"
      timeout == timeoutOf(Q)
      started == [IdleCall EXCEPT !.pc = "pending", !.match = matchResult,
                                  !.timeout = timeout,
                                  !.local = "$local" \in DOMAIN Q,
                                  !.indexed = Len(pm)]
      method == IF isLocalPattern THEN <<"local", payload.handler>>
                ELSE <<"send", payload.type, transport[payload.type].send>>
      nowait == [started EXCEPT !.envelope = "nowait", !.method = method]
      await == [started EXCEPT !.envelope = "await", !.method = method]
      next ==
        CASE matchResult = <<>> ->
               settle(started, Failure("pattern not found"))
          [] ~isLocalPattern /\ ~hasSend(payload.type) ->
               settle(started, Failure("transport not exists"))
          [] isLocalPattern /\ "$nowait" \in DOMAIN Q /\ sync # "pending" ->
               settle([nowait EXCEPT !.hnd = "failed", !.raised = sync],
                      Failure(sync))
          [] isLocalPattern /\ "$nowait" \in DOMAIN Q ->
               settle([nowait EXCEPT !.hnd = "running"], Result("undefined"))
          [] sync # "pending" ->
               awaitCatch(await, sync, mute)
          [] OTHER ->
               [await EXCEPT !.hnd = "running", !.timer = armTimer(timeout)]
  IN  \E after \in {next} :
        /\ calls' = [calls EXCEPT ![c] = after]
        /\ logged' = IF after.classified # "none"
                     THEN logAfter("await", sync, mute) ELSE logged
        /\ exited' = (after.classified # "none"
                        /\ errorHandler(sync, mute) = "fatal")
        /\ UNCHANGED <<config, pm, pmLocal, transport, apiError, chainVars,
                     last, sideVars>>

act(c, Q, sync, mute) ==
  /\ ~exited
  /\ calls[c].pc = "idle"
  /\ \E matchResult \in {lookup(selectIndex(Q), Q, config.matchOrder)} :
        actOn(c, Q, sync, mute, matchResult)

\* a handler whose result is that of the entry the index holds when it settles
handlerSettlesLooksUp(c, res, mute) ==
  LET call == calls[c]
      found == lookup(pm, call.match[1].pattern, config.matchOrder)
      value == IF found = <<>> THEN "undefined" ELSE found[1].payload.handler
      next ==
        CASE res = "ok" /\ call.envelope = "nowait" ->
               [call EXCEPT !.hnd = "returned"]
          [] res = "ok" ->
               settle([call EXCEPT !.hnd = "returned"], Result(value))
          [] call.envelope = "nowait" ->
               nowaitCatch(call, res)
          [] OTHER ->
               awaitCatch(call, res, mute)
  IN  /\ ~exited
      /\ call.hnd = "running"
      /\ calls' = [calls EXCEPT ![c] = next]
      /\ logged' = IF res = "ok" THEN logged
                   ELSE logAfter(call.envelope, res, mute)
      /\ exited' = (res # "ok" /\ errorHandler(res, mute) = "fatal")
      /\ UNCHANGED <<config, pm, pmLocal, transport, apiError, chainVars,
                     last, sideVars>>

\* The handler's promise settles: res is "ok" or the name of the error it
\* rejects with.
handlerSettles(c, res, mute) ==
  LET call == calls[c]
      value == call.match[1].payload.handler
      next ==
        CASE res = "ok" /\ call.envelope = "nowait" ->
               [call EXCEPT !.hnd = "returned"]
          [] res = "ok" ->
               settle([call EXCEPT !.hnd = "returned"], Result(value))
          [] call.envelope = "nowait" ->
               nowaitCatch(call, res)
          [] OTHER ->
               awaitCatch(call, res, mute)
  IN  /\ ~exited
      /\ call.hnd = "running"
      /\ calls' = [calls EXCEPT ![c] = next]
      /\ logged' = IF res = "ok" THEN logged
                   ELSE logAfter(call.envelope, res, mute)
      /\ exited' = (res # "ok" /\ errorHandler(res, mute) = "fatal")
      /\ UNCHANGED <<config, pm, pmLocal, transport, apiError, chainVars,
                     last, sideVars>>

\* The timer of .timeout(timeout) expires on a call still pending.
timerExpires(c) ==
  /\ ~exited
  /\ calls[c].timer = "armed"
  /\ calls[c].pc = "pending"
  /\ calls' = [calls EXCEPT ![c] = [@ EXCEPT !.pc = "done", !.timer = "fired",
                                             !.out = Failure("pattern timeout")]]
  /\ UNCHANGED <<config, pm, pmLocal, transport, logged, exited, apiError, chainVars,
               last, sideVars>>

\* ------------------------------------------------- index specification
\* add, remove and act over every pattern; handlers return
InitIndex ==
  InitWith(Configs({"depth", "insertion"}, {FALSE}, {0}, {"list"}))

NextIndex ==
  \/ \E p \in Patterns, h \in Functions \cup TransportNames :
       Len(pm) < MaxIndexed /\ add(p, h)
  \/ \E p \in Patterns : remove(p)
  \/ \E Q \in Requests : act(1, Q, "pending", FALSE)
  \/ handlerSettles(1, "ok", FALSE)

SpecIndex ==
  InitIndex /\ [][NextIndex]_vars

\* ---------------------------------------------- registry specification
\* add and remove under both match orders, with and without
\* forbidSameRouteNames, over routing keys; act looks a pattern up
RegistryKeys == {"r", "k"}

RegistryPatterns ==
  PatternsOver(RegistryKeys, AddValues)

RegistryHandlers == {"h1", "t1"}

InitRegistry ==
  InitWith(Configs({"depth", "insertion"}, BOOLEAN, {0}, {"list"}))

NextRegistry ==
  \/ \E p \in RegistryPatterns, h \in RegistryHandlers : add(p, h)
  \/ \E p \in RegistryPatterns : remove(p)
  \/ \E Q \in RegistryPatterns : act(1, Q, "pending", FALSE)

SpecRegistry ==
  InitRegistry /\ [][NextRegistry]_vars

\* ---------------------------------------------- envelope specification
\* one route, registered once at a time, served by a local handler or by a
\* transport; requests carry $nowait and $timeout; handlers return, throw,
\* reject or never settle
EnvelopeKeys == {"r", "$nowait", "$timeout"}

EnvelopeValues ==
  [k \in EnvelopeKeys |->
     IF k = "r" THEN {"x"} ELSE IF k = "$timeout" THEN {"100"} ELSE {"true"}]

EnvelopeRequests ==
  PatternsOver(EnvelopeKeys, EnvelopeValues)

Route == [r |-> "x"]

InitAct ==
  InitWith(Configs({"depth"}, {FALSE}, {0, DefaultTimeout}, {"list", "fn"}))

\* the answers a classifier function may give; the list form takes none
Mutes ==
  IF config.terminateOn = "fn" THEN BOOLEAN ELSE {FALSE}

NextAct ==
  \/ \E h \in {"h1", "t1"} : pm = <<>> /\ add(Route, h)
  \/ remove(Route)
  \/ \E data \in TransportData(TransportNames, Sends, {{}}, {0}) : use(data)
  \/ \E c \in CallIds, Q \in EnvelopeRequests,
        sync \in {"pending"} \cup ErrNames, mute \in Mutes :
          act(c, Q, sync, mute)
  \/ \E c \in CallIds, res \in {"ok"} \cup ErrNames, mute \in Mutes :
          handlerSettles(c, res, mute)
  \/ \E c \in CallIds : timerExpires(c)

SpecAct ==
  InitAct /\ [][NextAct]_vars

\* The event loop runs an armed timer's callback; nothing makes a handler
\* settle.
FairSpecAct ==
  SpecAct /\ \A c \in CallIds : WF_vars(timerExpires(c))

\* ----------------------------------------------------- the chain runner
\* names a notify list may hold: the local bus, the registered transports
\* and a name nothing is registered under
UnknownTransports == {"t2"}

NotifyNames ==
  {"local"} \cup TransportNames \cup UnknownTransports

\* what chain step i returns
StepValue(i) ==
  <<"v1", "v2", "v3", "v4">>[i]

registerTransport(name) ==
  /\ IF name \in transports
     THEN /\ apiError' = "transport already exists"
          /\ UNCHANGED transports
     ELSE /\ apiError' = "none"
          /\ transports' = transports \cup {name}
  /\ UNCHANGED <<instanceVars, run, last, sideVars>>

\* the runner is called on a chain of len steps with the call's headers
runChain(len, hasNotify, notify, break) ==
  /\ run.pc = "idle"
  /\ run' = [IdleRun EXCEPT !.pc = "reduce", !.len = len, !.i = 1,
                            !.input = "pattern", !.break = break,
                            !.hasNotify = hasNotify, !.notify = notify]
  /\ UNCHANGED <<instanceVars, apiError, transports, last, sideVars>>

\* a reducer that ends the chain on headers.break by returning its input
chainNextReturns ==
  /\ run.pc = "reduce"
  /\ run' = IF run.break
            THEN [run EXCEPT !.pc = "then"]
            ELSE [run EXCEPT !.pc = "step", !.invoked = Append(run.invoked, run.i)]
  /\ UNCHANGED <<instanceVars, apiError, transports, last, sideVars>>

\* The reducer is called for the next chain item: with headers.break set it
\* throws the CancellationError that carries the input, caught into the
\* caller's result; otherwise it calls the item's handler.
chainNext ==
  /\ run.pc = "reduce"
  /\ run' = IF run.break
            THEN [run EXCEPT !.pc = "settling", !.pending = run.input]
            ELSE [run EXCEPT !.pc = "step", !.invoked = Append(run.invoked, run.i)]
  /\ UNCHANGED <<instanceVars, apiError, transports, last, sideVars>>

\* a runner that returns the fan-out's promise from its then-callback
fanOutAwaited ==
  FALSE

\* whether the then-callback hands the notifications over without waiting
fanOutDetached ==
  TRUE

\* the caller's result can be delivered
resolveReady(r) ==
  /\ r.pc = "settling"
  /\ fanOutDetached \/ (r.toMap = {} /\ r.notifying = {})

\* The handler of the running step settles: it returns its value, maybe after
\* setting headers.break, or it raises err, which the last catch gives to
\* errorHandler.
stepSettles(res, setsBreak) ==
  /\ run.pc = "step"
  /\ run' = IF res = "ok"
            THEN [run EXCEPT !.input = StepValue(run.i),
                             !.break = run.break \/ setsBreak,
                             !.brokeAt = IF setsBreak THEN run.i ELSE run.brokeAt,
                             !.i = run.i + 1,
                             !.pc = IF run.i = run.len THEN "then" ELSE "reduce"]
            ELSE [run EXCEPT !.pc = "settling", !.pending = "handled",
                             !.classified = run.classified \cup {res}]
  /\ UNCHANGED <<instanceVars, apiError, transports, last, sideVars>>

\* what the then-callback leaves: listener is what the listeners of the local
\* bus do when the event is emitted ("returns" or "throws")
fanOut(r, listener) ==
  IF ~r.hasNotify
  THEN [r EXCEPT !.pc = "settling", !.pending = r.input]
  ELSE IF "local" \in r.notify /\ listener = "throws"
  THEN [r EXCEPT !.pc = "settling", !.pending = "handled", !.fanned = TRUE,
                 !.emitted = TRUE,
                 !.classified = r.classified \cup {"ListenerError"}]
  ELSE [r EXCEPT !.pc = "settling", !.pending = r.input, !.fanned = TRUE,
                 !.emitted = "local" \in r.notify, !.toMap = r.notify]

\* The then-callback after the chain ran through: notifyListenersAboutEvent
\* is called in it (the emit on the local bus is synchronous, Promise.map is
\* left running) and the data is returned.
thenFanOut(listener) ==
  /\ run.pc = "then"
  /\ run' = fanOut(run, listener)
  /\ UNCHANGED <<instanceVars, apiError, transports, last, sideVars>>

\* The caller observes the result of the runner's promise.
callerResolves ==
  /\ resolveReady(run)
  /\ run' = [run EXCEPT !.pc = "done", !.result = run.pending]
  /\ UNCHANGED <<instanceVars, apiError, transports, last, sideVars>>

\* the notification promise rejects with err: log.error gets the first
rejectFanOut(r, err) ==
  IF r.fanLogged = {} THEN [r EXCEPT !.fanLogged = {err}] ELSE r

\* The mapper of Promise.map runs for a name of the notify list; does is what
\* the transport's notify does when called: "pending" or "throws".
mapperRuns(name, does) ==
  /\ name \in run.toMap
  /\ run' = LET r == [run EXCEPT !.toMap = run.toMap \ {name}]
            IN  CASE name = "local" -> r
                  [] name \notin transports -> rejectFanOut(r, "TypeError")
                  [] does = "throws" ->
                       rejectFanOut([r EXCEPT !.notifyCalled = r.notifyCalled \cup {name}],
                                    "NotifyError")
                  [] OTHER ->
                       [r EXCEPT !.notifyCalled = r.notifyCalled \cup {name},
                                 !.notifying = r.notifying \cup {name}]
  /\ UNCHANGED <<instanceVars, apiError, transports, last, sideVars>>

\* A transport's notify settles: res is "ok" or "rejects".
notifySettles(name, res) ==
  /\ name \in run.notifying
  /\ run' = LET r == [run EXCEPT !.notifying = run.notifying \ {name}]
            IN  IF res = "ok" THEN r ELSE rejectFanOut(r, "NotifyError")
  /\ UNCHANGED <<instanceVars, apiError, transports, last, sideVars>>

\* ------------------------------------------------ chain specification
InitChain ==
  InitWith(Configs({"depth"}, {FALSE}, {DefaultTimeout}, {"list"}))

NextChain ==
  \/ \E name \in TransportNames : registerTransport(name)
  \/ \E len \in 1..MaxChain, break \in BOOLEAN :
        \/ runChain(len, FALSE, {}, break)
        \/ \E notify \in (SUBSET NotifyNames) \ {{}} : runChain(len, TRUE, notify, break)
  \/ chainNext
  \/ \E res \in {"ok", "Error"}, setsBreak \in BOOLEAN : stepSettles(res, setsBreak)
  \/ \E listener \in {"returns", "throws"} : thenFanOut(listener)
  \/ callerResolves
  \/ \E name \in NotifyNames, does \in {"pending", "throws"} : mapperRuns(name, does)
  \/ \E name \in TransportNames, res \in {"ok", "rejects"} : notifySettles(name, res)

SpecChain ==
  InitChain /\ [][NextChain]_vars

\* The promise machinery runs every callback that is due; nothing makes a
\* handler or a transport's notify settle.
FairSpecChain ==
  /\ SpecChain
  /\ WF_vars(chainNext)
  /\ WF_vars(\E listener \in {"returns", "throws"} : thenFanOut(listener))
  /\ WF_vars(callerResolves)

\* ------------------------------------------------- the dispatch of act
\* Local handlers and transport names under one route, transports loaded
\* with or without a send, and requests with and without $local; a handler is
\* added at most once at a time.
DispatchKeys == {"r", "$local"}

DispatchValues ==
  [k \in DispatchKeys |-> IF k = "r" THEN {"x"} ELSE {"true"}]

DispatchRequests ==
  PatternsOver(DispatchKeys, DispatchValues)

InitDispatch ==
  InitWith(Configs({"depth"}, {FALSE}, {DefaultTimeout}, {"list"}))

NextDispatch ==
  \/ \E h \in {"h1", "t1"} :
       /\ \A i \in 1..Len(pm) : pm[i].payload.handler # h
       /\ add(Route, h)
  \/ remove(Route)
  \/ \E data \in TransportData(TransportNames, Sends, {{}}, {0}) : use(data)
  \/ \E c \in CallIds, Q \in DispatchRequests, sync \in {"pending"} \cup ErrNames :
          act(c, Q, sync, FALSE)
  \/ \E c \in CallIds, res \in {"ok"} \cup ErrNames : handlerSettles(c, res, FALSE)
  \/ \E c \in CallIds : timerExpires(c)

SpecDispatch ==
  InitDispatch /\ [][NextDispatch]_vars

\* ---------------------------------------------- the transports' lifecycle
\* Transports with some of the lifecycle hooks are installed, and the four
\* entry points are called, on an instance of either index.js.
LifecycleNames == {"t1", "t2"}

HookSets == {{}, {"connect"}, {"disconnect"}, {"connect", "disconnect"}, Hooks}

InitLifecycle ==
  InitOf(Configs({"depth"}, {FALSE}, {DefaultTimeout}, {"list"}), Factories)

NextLifecycle ==
  \/ \E data \in TransportData(LifecycleNames, {"sendA"}, HookSets, {0}) : use(data)
  \/ connect
  \/ listen
  \/ disconnect
  \/ close

SpecLifecycle ==
  InitLifecycle /\ [][NextLifecycle]_vars

\* -------------------------------------------------- the header normalizer
\* normalizeHeaders is called with every notify of NotifyValues.
InitHeaders ==
  InitWith(Configs({"depth"}, {FALSE}, {DefaultTimeout}, {"list"}))

NextHeaders ==
  \E given \in NotifyValues : normalizeHeaders(given)

SpecHeaders ==
  InitHeaders /\ [][NextHeaders]_vars

\* ------------------------------------------------- the deadline of a call
\* A route served by a local handler or by a transport, the transport loaded
\* with or without a timeout among its options, and requests with and
\* without $timeout.
TransportTimeout == 200

DeadlineKeys == {"r", "$timeout"}

DeadlineValues ==
  [k \in DeadlineKeys |-> IF k = "r" THEN {"x"} ELSE {"100"}]

DeadlineRequests ==
  PatternsOver(DeadlineKeys, DeadlineValues)

InitDeadline ==
  InitWith(Configs({"depth"}, {FALSE}, {0, DefaultTimeout}, {"list"}))

NextDeadline ==
  \/ \E h \in {"h1", "t1"} : pm = <<>> /\ add(Route, h)
  \/ remove(Route)
  \/ \E data \in TransportData(TransportNames, {"sendA"}, {{}}, {0, TransportTimeout}) :
       use(data)
  \/ \E c \in CallIds, Q \in DeadlineRequests : act(c, Q, "pending", FALSE)
  \/ \E c \in CallIds, res \in {"ok"} \cup ErrNames : handlerSettles(c, res, FALSE)
  \/ \E c \in CallIds : timerExpires(c)

SpecDeadline ==
  InitDeadline /\ [][NextDeadline]_vars

\* --------------------------------------------------- claims on the index
\* some call of act on slot c with request Q
acts(c, Q) ==
  \E sync \in {"pending"} \cup ErrNames, mute \in BOOLEAN : act(c, Q, sync, mute)

\* the match relation of the specification: the non-meta keys of E are in Q
\* with equal values
NonMetaMatch(E, Q) ==
  \A k \in DOMAIN E : ~isMeta(k) => (k \in DOMAIN Q /\ Q[k] = E[k])

NonMetaWeight(p) ==
  Cardinality({k \in DOMAIN p : ~isMeta(k)})

\* the entry the depth order of the specification selects, 0 when none matches
DepthChoice(idx, Q) ==
  LET c == {i \in 1..Len(idx) : NonMetaMatch(idx[i].pattern, Q)}
      deepest == {i \in c : \A j \in c :
                    NonMetaWeight(idx[j].pattern) <= NonMetaWeight(idx[i].pattern)}
  IN  IF c = {} THEN 0 ELSE FirstOf(deepest)

\* C1: with matchOrder "depth" every act dispatches to the matching entry with
\* the greatest number of non-meta keys, and among those to the one inserted
\* earliest.
C1_DepthDispatch ==
  [][\A c \in CallIds, Q \in Requests :
       (config.matchOrder = "depth" /\ acts(c, Q)
          /\ DepthChoice(selectIndex(Q), Q) # 0)
       => calls'[c].match = <<selectIndex(Q)[DepthChoice(selectIndex(Q), Q)]>>]_vars

\* C2: the lookup of act returns an entry exactly when a stored entry has all
\* its non-meta keys in the request with equal values, and the entry returned
\* is such an entry; meta keys decide nothing.
C2_LookupIffNonMetaMatch ==
  [][\A c \in CallIds, Q \in Requests :
       acts(c, Q)
       => /\ (calls'[c].match # <<>>)
               <=> (\E i \in 1..Len(selectIndex(Q)) :
                      NonMetaMatch(selectIndex(Q)[i].pattern, Q))
          /\ calls'[c].match # <<>>
               => NonMetaMatch(calls'[c].match[1].pattern, Q)]_vars

\* ------------------------------------------------ claims on the envelope
TimedOut == Failure("pattern timeout")

\* what the await envelope gives the caller for a handler that settled
EnvelopeOutcomes(call) ==
  {Result(call.match[1].payload.handler), Result("null"), Failure(call.raised)}

\* C3: a call with a positive effective timeout resolves (unless a fatal error
\* ends the process): a step that settles a pending call is either the timer's
\* expiry while the handler has not completed, and gives PATTERN_TIMEOUT, or the
\* completion of the handler, and gives the envelope's outcome for it and not
\* PATTERN_TIMEOUT; only an expired timer gives PATTERN_TIMEOUT.
C3_TimeoutRace ==
  /\ \A c \in CallIds :
       (calls[c].pc = "pending" /\ calls[c].timeout > 0)
         ~> (calls[c].pc = "done" \/ exited)
  /\ [][\A c \in CallIds :
          (calls[c].pc = "pending" /\ calls[c].timeout > 0 /\ calls'[c] # calls[c])
          => \/ /\ calls'[c].hnd = "running"
                /\ calls'[c].pc = "done"
                /\ calls'[c].out = TimedOut
             \/ /\ calls'[c].hnd \in {"returned", "failed"}
                /\ exited'
                /\ calls'[c].pc = "pending"
             \/ /\ calls'[c].hnd \in {"returned", "failed"}
                /\ calls'[c].pc = "done"
                /\ calls'[c].out \in EnvelopeOutcomes(calls'[c])
                /\ calls'[c].out # TimedOut]_vars
  /\ [](\A c \in CallIds :
          calls[c].out = TimedOut => (calls[c].timer = "fired" /\ calls[c].timeout > 0))

\* a handler that never settles: the call is released by the timer alone
C3_Witness ==
  \E c \in CallIds :
    /\ calls[c].out = TimedOut
    /\ calls[c].hnd = "running"
    /\ calls[c].timeout = DefaultTimeout

\* C4: the expiry of the timer leaves the handler running, the handler can
\* still complete afterwards, and the caller's outcome stays PATTERN_TIMEOUT
\* when it does.
C4_TimeoutDoesNotCancel ==
  /\ [][\A c \in CallIds :
          /\ timerExpires(c)
               => (calls'[c].hnd = "running" /\ calls'[c].out = TimedOut)
          /\ (calls[c].out = TimedOut /\ calls[c].hnd = "running")
               => (calls'[c].out = TimedOut /\ calls'[c].pc = "done")]_vars
  /\ [](\A c \in CallIds :
          (calls[c].out = TimedOut /\ calls[c].hnd = "running" /\ ~exited)
          => /\ ENABLED handlerSettles(c, "ok", FALSE)
             /\ ENABLED handlerSettles(c, "Error", FALSE))

\* the handler completed after the timeout and the caller kept PATTERN_TIMEOUT
C4_Witness ==
  \E c \in CallIds :
    /\ calls[c].out = TimedOut
    /\ calls[c].hnd \in {"returned", "failed"}

\* C5: a matched local handler called with $nowait gives the caller an
\* undefined result, and an error it raises, thrown or rejected, is given to
\* the classifier and logged and never raised to the caller.
C5_NowaitNeverRaises ==
  \A c \in CallIds :
    calls[c].envelope = "nowait"
    => /\ calls[c].out = Result("undefined")
       /\ calls[c].raised # "none"
            => (calls[c].classified = calls[c].raised /\ calls[c].raised \in logged)

\* the handler of a call raises err in the await envelope before the call
\* timed out: thrown when act calls it, or rejected later
awaitRaises(c, err, mute) ==
  /\ calls'[c] # calls[c]
  /\ calls'[c].envelope = "await"
  /\ calls'[c].raised = err
  /\ ~(calls[c].pc = "done" /\ calls[c].hnd = "running")
  /\ \/ handlerSettles(c, err, mute)
     \/ \E Q \in EnvelopeRequests : act(c, Q, err, mute)

\* C6: in the await envelope every error the handler raises is given to the
\* classifier; for a call that has not timed out, a muted error gives the
\* caller a null result and no error, and an error neither muted nor fatal
\* gives the caller that same error.
C6_AwaitEnvelopeClassifies ==
  /\ [](\A c \in CallIds :
          (calls[c].envelope = "await" /\ calls[c].raised # "none")
          => calls[c].classified = calls[c].raised)
  /\ [][\A c \in CallIds, err \in ErrNames, mute \in BOOLEAN :
          awaitRaises(c, err, mute)
          => /\ errorHandler(err, mute) = "mute"
                  => (calls'[c].pc = "done" /\ calls'[c].out = Result("null"))
             /\ errorHandler(err, mute) = "pass"
                  => (calls'[c].pc = "done" /\ calls'[c].out = Failure(err))]_vars

\* a muted error: the caller has a null result
C6_Witness ==
  \E c \in CallIds :
    /\ calls[c].envelope = "await"
    /\ calls[c].classified = "Error"
    /\ calls[c].out = Result("null")

\* --------------------------------------------- claims on the chain runner
\* C7: nothing is delivered, neither the emit on the local bus nor a call of a
\* transport's notify, before the caller's result is observable.
C7_NoNotificationBeforeResult ==
  (run.emitted \/ run.notifyCalled # {}) => run.pc = "done"

\* C8: the caller's result never waits for the fan-out: once the chain ran
\* through, the result becomes observable whatever the notifications do, and a
\* call whose notifications went to a transport has the handler's result.
C8_NeverWaitsForFanOut ==
  /\ (run.pc = "then") ~> (run.pc = "done")
  /\ [](run.pc = "done" /\ run.notifyCalled # {} => run.result = run.input)

\* the caller has the handler's result while a transport's notify is pending
C8_Witness ==
  /\ run.pc = "done"
  /\ run.notifying # {}
  /\ run.result = StepValue(run.len)

\* C9: a failure during fan-out is only logged: the caller of a call that
\* fanned out has the handler's result.
C9_FanOutFailureOnlyLogged ==
  (run.pc = "done" /\ run.fanned) => run.result = run.input

\* C10: once a step set headers.break no later step is invoked and the
\* caller's result is the value that step returned; the steps up to it were
\* invoked once each, in chain order, one after the other.
C10_BreakStopsChain ==
  /\ run.invoked = [j \in 1..Len(run.invoked) |-> j]
  /\ run.pc = "step" => run.i = Len(run.invoked)
  /\ run.brokeAt > 0
       => /\ Len(run.invoked) = run.brokeAt
          /\ run.pc = "done" => run.result = StepValue(run.brokeAt)

\* ------------------------------------------------ claims on the registry
\* entries of idx whose pattern equals p
EqualStored(idx, p) ==
  {i \in 1..Len(idx) : idx[i].pattern = p}

\* the entry add stores for a pattern and a handler
EntryOf(p, h) ==
  [pattern |-> p,
   payload |-> [type |-> IF isFunction(h) THEN "local" ELSE h, handler |-> h]]

\* C11: with forbidSameRouteNames enabled, under either match order, no index
\* ever holds two entries with equal patterns: an add of a pattern equal to a
\* stored one fails with DUPLICATE_PATTERN and leaves both indices unchanged.
C11_NoEqualPatterns ==
  /\ [](config.forbidSameRouteNames
          => \A i, j \in 1..Len(pm) : pm[i].pattern = pm[j].pattern => i = j)
  /\ [](config.forbidSameRouteNames
          => \A i, j \in 1..Len(pmLocal) :
               pmLocal[i].pattern = pmLocal[j].pattern => i = j)
  /\ [][\A p \in RegistryPatterns, h \in RegistryHandlers :
          (config.forbidSameRouteNames /\ EqualStored(pm, p) # {} /\ add(p, h))
          => (apiError' = "pattern already exists"
                /\ pm' = pm /\ pmLocal' = pmLocal)]_vars

\* C12 as claimed: add(p, x) directly followed by remove(p) leaves both
\* indices as they were before the add, whatever was stored.
C12_AddRemoveRoundTrip ==
  last.op = "addremove" => (pm = last.pm /\ pmLocal = last.pmLocal)

\* C12 amended: add(p, x) directly followed by remove(p) leaves both indices
\* as they were before the add when no entry with a pattern equal to p was
\* stored before the add.
C12_AddRemoveRestores ==
  (last.op = "addremove" /\ EqualStored(last.pm, last.pattern) = {})
  => (pm = last.pm /\ pmLocal = last.pmLocal)

\* an add and a remove on indices that held other entries
C12_Witness ==
  /\ last.op = "addremove"
  /\ EqualStored(last.pm, last.pattern) = {}
  /\ last.pmLocal # <<>>
  /\ Len(last.pm) > Len(last.pmLocal)

\* C13 as claimed: directly after add(pattern, payload) a lookup of that
\* pattern returns that payload, whatever was stored before.
C13_LookupAfterAdd ==
  last.op = "add"
  => lookup(pm, last.pattern, config.matchOrder)
       = <<EntryOf(last.pattern, last.handler)>>

\* an entry stored before the add goes first in the match order for p
Precedes(idx, p) ==
  IF config.matchOrder = "depth" THEN EqualStored(idx, p) # {}
  ELSE Candidates(idx, p) # {}

\* C13 amended: directly after add(pattern, payload) a lookup of that pattern
\* returns that payload, in the index of all patterns and for a local handler
\* in the index of local patterns too, unless an entry stored before the add
\* goes first in the match order: under insertion an entry that matches the
\* pattern, under depth an entry with an equal pattern.
C13_LookupAfterAddUnlessPreceded ==
  (last.op = "add" /\ ~Precedes(last.pm, last.pattern))
  => /\ lookup(pm, last.pattern, config.matchOrder)
          = <<EntryOf(last.pattern, last.handler)>>
     /\ isFunction(last.handler)
          => lookup(pmLocal, last.pattern, config.matchOrder)
               = <<EntryOf(last.pattern, last.handler)>>

\* under depth the new entry wins over a shallower one stored before
C13_Witness ==
  /\ last.op = "add"
  /\ config.matchOrder = "depth"
  /\ isFunction(last.handler)
  /\ Candidates(last.pm, last.pattern) # {}
  /\ ~Precedes(last.pm, last.pattern)

\* C14 as claimed: after add(p, x) followed by remove(p) a lookup of p returns
\* null and act(p) fails with PATTERN_NOT_FOUND, whatever was stored before.
C14_NotFoundAfterRemove ==
  /\ [](last.op = "addremove"
          => lookup(selectIndex(last.pattern), last.pattern, config.matchOrder) = <<>>)
  /\ [][\A c \in CallIds :
          (last.op = "addremove" /\ acts(c, last.pattern))
          => calls'[c].out = Failure("pattern not found")]_vars

\* C14 amended: after add(p, x) followed by remove(p) a lookup of p returns
\* null and act(p) fails with PATTERN_NOT_FOUND when no entry stored before
\* the add matches p.
C14_NotFoundAfterRemoveIfUnmatched ==
  /\ [](last.op = "addremove" /\ Candidates(last.pm, last.pattern) = {}
          => lookup(selectIndex(last.pattern), last.pattern, config.matchOrder) = <<>>)
  /\ [][\A c \in CallIds :
          (last.op = "addremove" /\ Candidates(last.pm, last.pattern) = {}
             /\ acts(c, last.pattern))
          => calls'[c].out = Failure("pattern not found")]_vars

\* act failed after the add and the remove, with another entry in the index
C14_Witness ==
  /\ last.op = "addremove"
  /\ Candidates(last.pm, last.pattern) = {}
  /\ pm # <<>>
  /\ \E c \in CallIds : calls[c].out = Failure("pattern not found")

\* ---------------------------------------------- claims on the dispatch
NotFound == Failure("pattern not found")

\* call c starts in this step, as a call of act with request Q
starts(c, Q) ==
  /\ calls[c].pc = "idle"
  /\ calls'[c].pc # "idle"
  /\ acts(c, Q)

\* no entry of idx matches the request Q
Unmatched(idx, Q) ==
  \A i \in 1..Len(idx) : ~Matches(idx[i].pattern, Q)

\* idx holds the looked-up entry
Holds(idx, matchResult) ==
  \E i \in 1..Len(idx) : idx[i] = matchResult[1]

\* C15: an act whose request matches no entry of the selected index fails with
\* PATTERN_NOT_FOUND; for that call no handler and no transport send is
\* invoked, no timer is armed or expires, nothing is notified, and nothing
\* happens to the call afterwards.
C15_NotFound ==
  /\ [][\A c \in CallIds, Q \in DispatchRequests :
          (starts(c, Q) /\ Unmatched(IF "$local" \in DOMAIN Q THEN pmLocal ELSE pm, Q))
          => /\ calls'[c].pc = "done"
             /\ calls'[c].out = NotFound
             /\ calls'[c].hnd = "none"
             /\ calls'[c].method = <<>>
             /\ calls'[c].timer = "none"
             /\ run' = run
             /\ logged' = logged]_vars
  /\ [][\A c \in CallIds :
          calls[c].out = NotFound => calls'[c] = calls[c]]_vars

\* a call with the default timeout that found nothing
C15_Witness ==
  \E c \in CallIds :
    /\ calls[c].out = NotFound
    /\ calls[c].timeout = DefaultTimeout
    /\ calls[c].indexed = 0

\* C16: an act carrying $local looks up the index of local patterns only: the
\* entry it finds is a local one, no transport's send is invoked, and it fails
\* with PATTERN_NOT_FOUND when no local entry matches, also when a remote
\* registration does; an act without $local looks up the index of all
\* patterns.
C16_LocalOnly ==
  [][\A c \in CallIds, Q \in DispatchRequests :
       starts(c, Q)
       => IF "$local" \in DOMAIN Q
          THEN /\ calls'[c].match # <<>>
                    => /\ Holds(pmLocal, calls'[c].match)
                       /\ calls'[c].match[1].payload.type = "local"
               /\ calls'[c].method # <<>> => calls'[c].method[1] = "local"
               /\ Unmatched(pmLocal, Q) => calls'[c].out = NotFound
               /\ ~Unmatched(pmLocal, Q) => calls'[c].match # <<>>
          ELSE /\ calls'[c].match # <<>> <=> ~Unmatched(pm, Q)
               /\ calls'[c].match # <<>> => Holds(pm, calls'[c].match)]_vars

\* a request with $local found nothing although a remote registration was
\* stored
C16_Witness ==
  \E c \in CallIds :
    /\ calls[c].local
    /\ calls[c].out = NotFound
    /\ calls[c].indexed > 0

\* C17: when the matched entry names a transport that is not loaded, or is
\* loaded without a send, act fails with NO_SUCH_TRANSPORT and invokes
\* nothing; when the transport is loaded with a send, the send of that
\* transport is what the call invokes, and a call invokes once.
C17_TransportSend ==
  /\ [][\A c \in CallIds, Q \in DispatchRequests :
          (starts(c, Q) /\ calls'[c].match # <<>>
             /\ calls'[c].match[1].payload.type # "local")
          => LET type == calls'[c].match[1].payload.type
             IN  IF type \in DOMAIN transport /\ transport[type].send # "none"
                 THEN /\ calls'[c].method = <<"send", type, transport[type].send>>
                      /\ calls'[c].hnd # "none"
                 ELSE /\ calls'[c].out = Failure("transport not exists")
                      /\ calls'[c].hnd = "none"
                      /\ calls'[c].method = <<>>]_vars
  /\ [][\A c \in CallIds :
          calls[c].method # <<>> => calls'[c].method = calls[c].method]_vars

\* the loaded transport's send was invoked
C17_Witness ==
  \E c \in CallIds :
    /\ calls[c].method = <<"send", "t1", "sendA">>
    /\ calls[c].hnd = "returned"

\* C18: installing a transport under a name that is already in the registry
\* fails with DUPLICATE_TRANSPORT and leaves the registry unchanged.
C18_DuplicateTransport ==
  [][\A data \in TransportData(TransportNames, Sends, {{}}, {0}) :
       (use(data) /\ data.name \in DOMAIN transport)
       => (transport' = transport /\ apiError' = "transport already exists")]_vars

\* --------------------------------------------- claims on the lifecycle
\* the hooks a call of the entry point has to invoke: its own hook, on every
\* installed transport that has it
OwnHooks(entry) ==
  {pair \in (DOMAIN transport) \X Hooks :
     pair[2] = entry /\ entry \in transport[pair[1]].hooks}

\* C19: each of connect, listen, disconnect and close invokes its own hook,
\* and only that hook, on every installed transport that has it; disconnect
\* invokes the disconnect hook and never the connect hook.
C19_OwnHookOnly ==
  [][/\ connect => hooked'.invoked = OwnHooks("connect")
     /\ listen => hooked'.invoked = OwnHooks("listen")
     /\ disconnect => hooked'.invoked = OwnHooks("disconnect")
     /\ close => hooked'.invoked = OwnHooks("close")]_vars

\* ------------------------------------------------ claims on the headers
\* a list of at least one string, the strings pairwise distinct
DistinctStrings(x) ==
  /\ x.t = "array"
  /\ Len(x.items) >= 1
  /\ \A k \in 1..Len(x.items) : x.items[k].t = "string"
  /\ \A j, k \in 1..Len(x.items) : j # k => x.items[j] # x.items[k]

\* the trimmed segments between the commas of text that are not empty
Segments(text) ==
  SelectSeq([k \in 1..Len(split(text)) |-> trim(split(text)[k])],
            LAMBDA item : item # <<>>)

\* C20: a call of normalizeHeaders either succeeds or fails with
\* INVALID_HEADERS; when it succeeds, a notify of true, "true" or a regex has
\* become ["local"], a comma-separated string has become its trimmed
\* non-empty segments, a list is as it was given, and a notify that is present
\* is a list of at least one string, the strings pairwise distinct.
C20_NotifyCoercion ==
  headers.outcome # "none"
  => /\ headers.outcome \in {"ok", "INVALID_HEADERS"}
     /\ headers.outcome = "ok"
        => /\ headers.notify # Undefined => DistinctStrings(headers.notify)
           /\ (\/ headers.given \in {Bool(TRUE), RegExp}
               \/ headers.given = Str(<<"t", "r", "u", "e">>))
              => headers.notify = Arr(<<Str(<<"l", "o", "c", "a", "l">>)>>)
           /\ (/\ headers.given.t = "string"
               /\ headers.given.v # <<>>
               /\ headers.given # Str(<<"t", "r", "u", "e">>))
              => /\ Len(headers.notify.items) = Len(Segments(headers.given.v))
                 /\ \A k \in 1..Len(headers.notify.items) :
                      headers.notify.items[k] = Str(Segments(headers.given.v)[k])
           /\ headers.given.t = "array" => headers.notify = headers.given

\* ------------------------------------------------ claims on the deadline
\* C21: when the matched entry is served by a transport whose options declare
\* a timeout and the request carries no $timeout, the deadline of the call is
\* the transport's timeout and not the instance default; when the request
\* carries $timeout, that value is the deadline.
C21_TransportTimeout ==
  [][\A c \in CallIds, Q \in DeadlineRequests :
       (starts(c, Q) /\ calls'[c].method # <<>> /\ calls'[c].method[1] = "send")
       => calls'[c].timeout =
            IF "$timeout" \in DOMAIN Q THEN 100
            ELSE IF transport[calls'[c].method[2]].options.timeout # 0
                 THEN transport[calls'[c].method[2]].options.timeout
                 ELSE config.timeout]_vars

\* --------------------------------------------- claims on the two indices
\* the entries of idx whose type is local, in their order
LocalEntries(idx) ==
  SelectSeq(idx, LAMBDA entry : entry.payload.type = "local")

\* the request Q with $local set
withLocal(Q) ==
  [k \in DOMAIN Q \cup {"$local"} |-> IF k = "$local" THEN "true" ELSE Q[k]]

\* C22: after any sequence of add and remove the index of local patterns
\* holds exactly the local entries of the index of all patterns; and a request
\* that finds a local handler without $local finds the same handler with
\* $local.
C22_LocalMirrorsAll ==
  /\ pmLocal = LocalEntries(pm)
  /\ \A Q \in Requests :
       (/\ "$local" \notin DOMAIN Q
        /\ lookup(pm, Q, config.matchOrder) # <<>>
        /\ lookup(pm, Q, config.matchOrder)[1].payload.type = "local")
       => /\ lookup(pmLocal, withLocal(Q), config.matchOrder) # <<>>
          /\ lookup(pmLocal, withLocal(Q), config.matchOrder)[1].payload.handler
               = lookup(pm, Q, config.matchOrder)[1].payload.handler

\* ------------------------------------------- claims on calls in flight
\* C23: the lookup of act fixes the handler of a call: a call that started
\* keeps its entry and its method, an add or a remove changes nothing of any
\* call, the result a pending call receives is that of the method it started
\* with, and a call that starts looks up the index as it is then.
C23_LookupFixesHandler ==
  /\ [][\A c \in CallIds :
          calls[c].pc # "idle"
          => /\ calls'[c].match = calls[c].match
             /\ calls'[c].method = calls[c].method]_vars
  /\ [][\A h \in {"h1", "t1"} :
          (add(Route, h) \/ remove(Route)) => calls' = calls]_vars
  /\ [][\A c \in CallIds :
          (calls[c].pc = "pending" /\ calls[c].hnd = "running"
             /\ handlerSettles(c, "ok", FALSE))
          => calls'[c].out = Result(calls[c].method[2])]_vars
  /\ [][\A c \in CallIds, Q \in DispatchRequests :
          starts(c, Q)
          => calls'[c].match =
               lookup(IF "$local" \in DOMAIN Q THEN pmLocal ELSE pm, Q,
                      config.matchOrder)]_vars

\* the handler of a pending call runs and its entry is no longer stored
C23_Witness ==
  \E c \in CallIds :
    /\ calls[c].pc = "pending"
    /\ calls[c].hnd = "running"
    /\ ~Holds(pm, calls[c].match)

\* ------------------------------------------------ claims on the fan-out
\* the caller's result is decided
Decided ==
  run.pc \in {"settling", "done"}

\* C24: a chain cut short, by headers.break found set before a step or by a
\* step's error, has no fan-out, whatever headers.notify holds: nothing is
\* emitted and no transport's notify is called; the fan-out is performed when
\* and only when the chain ran through its last step without error and
\* headers.notify is set, the last step setting break included.
C24_FanOutOnlyAfterWholeChain ==
  /\ run.fanned
       => /\ Len(run.invoked) = run.len
          /\ "Error" \notin run.classified
          /\ run.hasNotify
  /\ (Decided /\ Len(run.invoked) < run.len)
       => /\ ~run.fanned
          /\ ~run.emitted
          /\ run.notifyCalled = {}
          /\ run.toMap = {}
  /\ (Decided /\ Len(run.invoked) = run.len /\ "Error" \notin run.classified
        /\ run.hasNotify)
       => run.fanned

\* a chain with notify set was cut short by break, and the caller has its
\* result
C24_Witness ==
  /\ run.pc = "done"
  /\ run.hasNotify
  /\ run.break
  /\ run.brokeAt > 0
  /\ run.brokeAt < run.len
  /\ Len(run.invoked) = run.brokeAt

====
